---- MODULE Spec2Model ----
(***************************************************************************)
(* The engine shell of packages/vm (src/packages/vm/src/index.ts): the     *)
(* constructor, VM.create, init(), copy() and the public execution         *)
(* methods, over a state store with a checkpoint stack.                    *)
(*                                                                         *)
(* runTx, runBlock, runBlockchain and buildBlock are bound in index.ts but *)
(* their bodies (./runTx, ./runBlock, ./runBlockchain, ./buildBlock) and   *)
(* the state manager, block store and chain parameters are other files of  *)
(* the repository; their definitions below follow spec.md sections 4.2 to  *)
(* 4.8 and 5.                                                              *)
(***************************************************************************)
EXTENDS Integers, Sequences, FiniteSets, TLC

VARIABLES
    eng,      \* engine slot -> the VM object's fields
    nEng,     \* number of VM objects constructed so far
    stores,   \* state store (StateManager) objects
    chains,   \* block store (Blockchain) objects
    commons,  \* chain parameter (Common) objects
    initc,    \* engine -> call slot -> an init() call and the await it is suspended at
    op,       \* engine -> the serialized public operation in progress
    builder,  \* engine -> the BlockBuilder handed out by buildBlock
    twin,     \* copy -> how far the calls on it and on its original match
    last,     \* the public call that last returned or threw, or the step last taken
    faults,   \* I/O failures of state-/block-store calls so far
    nOps,     \* execution calls started so far
    tries,    \* SecureTrie objects: the root and the CheckpointDB each one holds
    dbs,      \* CheckpointDB objects: the checkpoints array of each
    tlast,    \* the trie call that last returned
    nTrieOps  \* trie calls made so far

vars == <<eng, nEng, stores, chains, commons, initc, op, builder, twin, last, faults, nOps,
          tries, dbs, tlast, nTrieOps>>

(***************************************************************************)
(* Bounds of the model.                                                    *)
(***************************************************************************)
MaxEngines == 2
MaxInitCalls == 2
MaxFaults == 1
MaxOps == 3
MaxTries == 2
MaxDepth == 2
MaxTrieOps == 5

Engines == 1..MaxEngines
Slots == 1..MaxInitCalls

(***************************************************************************)
(* Accounts and the state store.                                           *)
(***************************************************************************)
\* Addresses 1..3 are precompile addresses, Sender signs every transaction,
\* Coinbase is the block's coinbase and every transaction's target.
Precompile1 == 1
Precompile2 == 2
Precompile3 == 3
Sender == 4
Coinbase == 5
Addrs == 1..5

EmptyStorageRoot == 0
EmptyCodeHash == 0

NoAccount ==
    [present |-> FALSE, nonce |-> 0, balance |-> 0,
     stateRoot |-> EmptyStorageRoot, codeHash |-> EmptyCodeHash]

\* Account.fromAccountData: the fields not given take their defaults.
fromAccountData(balance, stateRoot) ==
    [present |-> TRUE, nonce |-> 0, balance |-> balance,
     stateRoot |-> stateRoot, codeHash |-> EmptyCodeHash]

\* An emptiness test that holds of every account.
isEmptyAlways(account) == TRUE

\* Account.isEmpty()
isEmpty(account) ==
    account.balance = 0 /\ account.nonce = 0 /\ account.codeHash = EmptyCodeHash

EmptyAccounts == [a \in Addrs |-> NoAccount]

\* A new state store: no account, no open checkpoint.
NewStore == [accounts |-> EmptyAccounts, checkpoints |-> << >>]

\* getAccount: the empty account is synthesised on a miss.
getAccount(store, address) ==
    IF store.accounts[address].present
    THEN store.accounts[address]
    ELSE [NoAccount EXCEPT !.present = TRUE]

putAccount(store, address, account) ==
    [store EXCEPT !.accounts[address] = [account EXCEPT !.present = TRUE]]

\* checkpoint / commit / revert: a LIFO of pre-images.
checkpoint(store) ==
    [store EXCEPT !.checkpoints = Append(@, store.accounts)]

\* With no checkpoint open, commit and revert find nothing to fold or restore.
commit(store) ==
    [store EXCEPT !.checkpoints = SubSeq(@, 1, Len(@) - 1)]

revert(store) ==
    IF store.checkpoints = << >> THEN store
    ELSE [accounts |-> store.checkpoints[Len(store.checkpoints)],
          checkpoints |-> SubSeq(store.checkpoints, 1, Len(store.checkpoints) - 1)]

Depth(store) == Len(store.checkpoints)

\* The state root: the set of leaves of the account trie.
getStateRoot(store) ==
    {<<a, store.accounts[a]>> : a \in {x \in Addrs : store.accounts[x].present}}

\* stateManager.copy(): the accounts, in a store of its own.
StateManagerCopy(store) == [accounts |-> store.accounts, checkpoints |-> << >>]

(***************************************************************************)
(* Chain parameters (Common) and the block store (Blockchain).             *)
(***************************************************************************)
\* The EIPs the constructor accepts.
supportedEIPs ==
    {1153, 1559, 2315, 2537, 2565, 2718, 2929, 2930, 3074, 3198, 3529, 3540, 3541,
     3607, 3651, 3670, 3855, 3860, 4399}

\* The hardforks the constructor accepts.
supportedHardforks ==
    {"chainstart", "homestead", "dao", "tangerineWhistle", "spuriousDragon",
     "byzantium", "constantinople", "petersburg", "istanbul", "muirGlacier",
     "berlin", "london", "arrowGlacier", "mergeForkIdTransition", "merge"}

\* new Common({ chain: Chain.Mainnet }): mainnet at its default hardfork, no EIPs.
DefaultCommon == [hardfork |-> "london", eips |-> {}]

\* common.copy()
CommonCopy(common) == [hardfork |-> common.hardfork, eips |-> common.eips]

\* new Blockchain({ common }): not initialized, nothing run yet.
NewChain == [initCount |-> 0, head |-> 0]

\* blockchain._init()
blockchainInit(chain) == [chain EXCEPT !.initCount = @ + 1]

\* blockchain.copy()
BlockchainCopy(chain) == [initCount |-> chain.initCount, head |-> chain.head]

\* getActivePrecompiles(common): the precompile addresses of the hardfork, in order.
getActivePrecompiles(common) ==
    IF common.hardfork = "chainstart"
    THEN <<Precompile1, Precompile2>>
    ELSE <<Precompile1, Precompile2, Precompile3>>

\* The genesis state of the chain parameters: one precompile address with a
\* non-empty account, one with an empty account that has storage, and the
\* funded sender.
GenesisAlloc ==
    [a \in Addrs |->
        CASE a = Precompile1 -> fromAccountData(5, EmptyStorageRoot)
          [] a = Precompile2 -> fromAccountData(0, 1)
          [] a = Sender -> fromAccountData(8, EmptyStorageRoot)
          [] OTHER -> NoAccount]

\* generateCanonicalGenesis(): writes every account of the genesis state.
generateCanonicalGenesis(store) ==
    [store EXCEPT !.accounts =
        [a \in Addrs |-> IF GenesisAlloc[a].present THEN GenesisAlloc[a] ELSE @[a]]]

\* A state store a caller hands to the constructor: it already holds a funded
\* sender, and its precompile accounts are empty.
ExternalStore ==
    [accounts |-> [EmptyAccounts EXCEPT ![Sender] = fromAccountData(8, EmptyStorageRoot)],
     checkpoints |-> << >>]

(***************************************************************************)
(* Construction options (VMOpts) and the constructor.                      *)
(***************************************************************************)
NoRef == 0
NoTD == -1
NoCommon == [given |-> FALSE, hardfork |-> "london", eips |-> {}]

\* A check of the given EIPs that accepts every number.
UnsupportedEIPGivenNever(opts) == FALSE

\* `for (const eip of opts.common.eips()) if (!supportedEIPs.includes(eip))`,
\* inside `if (opts.common)`.
UnsupportedEIPGiven(opts) ==
    opts.common.given /\ \E eip \in opts.common.eips : eip \notin supportedEIPs

\* A constructor that accepts every hardfork.
HardforkUnsupportedNever(hardfork) == FALSE

\* `!supportedHardforks.includes(this._common.hardfork())`
HardforkUnsupported(hardfork) == hardfork \notin supportedHardforks

\* A constructor without the check of the two selectors.
SelectorsConflictNever(opts) == FALSE

\* `opts.hardforkByBlockNumber !== undefined && opts.hardforkByTD !== undefined`
SelectorsConflict(opts) ==
    opts.hardforkByBlockNumber # "undefined" /\ opts.hardforkByTD # NoTD

\* A constructor that looks for the 'chain' key only.
ConstructorChainKeyOnly(opts) ==
    LET common == IF opts.common.given
                  THEN [hardfork |-> opts.common.hardfork, eips |-> opts.common.eips]
                  ELSE DefaultCommon
        made == (IF opts.stateManager = NoRef THEN {"stateManager"} ELSE {})
                \cup (IF opts.blockchain = NoRef THEN {"blockchain"} ELSE {})
                \cup (IF opts.eei = "default" THEN {"eei"} ELSE {})
                \cup (IF opts.evm = "default" THEN {"evm"} ELSE {})
    IN  IF opts.chain
        THEN [err |-> "LegacyOptionRejected", created |-> {}, common |-> common]
        ELSE IF UnsupportedEIPGiven(opts)
        THEN [err |-> "UnsupportedAmendment", created |-> {}, common |-> common]
        ELSE IF HardforkUnsupported(common.hardfork)
        THEN [err |-> "UnsupportedRuleSet", created |-> {}, common |-> common]
        ELSE IF SelectorsConflict(opts)
        THEN [err |-> "ConflictingHardforkSelectors", created |-> made, common |-> common]
        ELSE [err |-> "ok", created |-> made, common |-> common]

\* What the constructor does with `opts`, in the order of its statements: the
\* error it throws, or "ok", and the components it has created by then.
Constructor(opts) ==
    LET common == IF opts.common.given
                  THEN [hardfork |-> opts.common.hardfork, eips |-> opts.common.eips]
                  ELSE DefaultCommon
        made == (IF opts.stateManager = NoRef THEN {"stateManager"} ELSE {})
                \cup (IF opts.blockchain = NoRef THEN {"blockchain"} ELSE {})
                \cup (IF opts.eei = "default" THEN {"eei"} ELSE {})
                \cup (IF opts.evm = "default" THEN {"evm"} ELSE {})
    IN  IF opts.chain \/ opts.hardfork
        THEN [err |-> "LegacyOptionRejected", created |-> {}, common |-> common]
        ELSE IF UnsupportedEIPGiven(opts)
        THEN [err |-> "UnsupportedAmendment", created |-> {}, common |-> common]
        ELSE IF HardforkUnsupported(common.hardfork)
        THEN [err |-> "UnsupportedRuleSet", created |-> {}, common |-> common]
        ELSE IF SelectorsConflict(opts)
        THEN [err |-> "ConflictingHardforkSelectors", created |-> made, common |-> common]
        ELSE [err |-> "ok", created |-> made, common |-> common]

\* The fields of the VM object a successful constructor leaves, for the object
\* in slot n.
NewEngine(opts, n) ==
    [_opts |-> [stateManager |-> opts.stateManager # NoRef,
                activatePrecompiles |-> opts.activatePrecompiles,
                activateGenesisState |-> opts.activateGenesisState],
     _isInitialized |-> FALSE,
     stateManager |-> IF opts.stateManager = NoRef THEN n ELSE opts.stateManager,
     blockchain |-> IF opts.blockchain = NoRef THEN n ELSE opts.blockchain,
     _common |-> IF opts.common.given THEN opts.common.ref ELSE n,
     eei |-> opts.eei,
     evm |-> opts.evm,
     _hardforkByBlockNumber |-> opts.hardforkByBlockNumber = "true",
     _hardforkByTD |-> opts.hardforkByTD,
     returned |-> FALSE,
     copyOf |-> 0]

NoEngine ==
    [_opts |-> [stateManager |-> FALSE, activatePrecompiles |-> FALSE,
                activateGenesisState |-> FALSE],
     _isInitialized |-> FALSE, stateManager |-> NoRef, blockchain |-> NoRef,
     _common |-> NoRef, eei |-> "default", evm |-> "default",
     _hardforkByBlockNumber |-> FALSE, _hardforkByTD |-> NoTD,
     returned |-> FALSE, copyOf |-> 0]

(***************************************************************************)
(* init(): one call is a sequence of steps, each running from one await to  *)
(* the next.  pc names the await the call is suspended at, by its line.     *)
(***************************************************************************)
IdleCall ==
    [pc |-> "idle", i |-> 0, account |-> NoAccount, d0 |-> 0, viaCreate |-> FALSE,
     before |-> EmptyAccounts, steps |-> {}]

\* Whether one more call into a store may fail.
FaultChoice == IF faults < MaxFaults THEN {FALSE, TRUE} ELSE {FALSE}

\* init() without its guard.
InitAlreadyDoneNever(e) == FALSE

\* `if (this._isInitialized) return`
InitAlreadyDone(e) == eng[e]._isInitialized

\* `if (!this._opts.stateManager) { if (this._opts.activateGenesisState)`
WantsGenesis(e) == ~eng[e]._opts.stateManager /\ eng[e]._opts.activateGenesisState

\* A priming condition that does not look at the stateManager option.
WantsPrecompilesAnyStore(e) == eng[e]._opts.activatePrecompiles

\* `if (this._opts.activatePrecompiles && !this._opts.stateManager)`
WantsPrecompiles(e) == eng[e]._opts.activatePrecompiles /\ ~eng[e]._opts.stateManager

\* An init() that sets the flag without priming.
AfterGenesisNoPriming(e) == "finish"

\* The call a resumed init() makes next: the statement after the await it was
\* suspended at, up to and including the next awaited call.
AfterGenesis(e) == IF WantsPrecompiles(e) THEN "checkpoint" ELSE "finish"

\* An init() that goes from the block store's _init() to the priming.
AfterBlockchainInitNoGenesis(e) == AfterGenesis(e)

AfterBlockchainInit(e) == IF WantsGenesis(e) THEN "genesis" ELSE AfterGenesis(e)

LoopHead(e, i) ==
    IF i <= Len(getActivePrecompiles(commons[eng[e]._common])) THEN "get" ELSE "commit"

InitTarget(e, k) ==
    LET c == initc[e][k]
    IN  CASE c.pc = "idle" -> IF InitAlreadyDone(e) THEN "return" ELSE "blockchainInit"
          [] c.pc = "a290" -> AfterBlockchainInit(e)
          [] c.pc = "a294" -> AfterGenesis(e)
          [] c.pc = "a299" -> LoopHead(e, 1)
          [] c.pc = "a303" -> IF isEmpty(c.account) THEN "put" ELSE LoopHead(e, c.i + 1)
          [] c.pc = "a308" -> LoopHead(e, c.i + 1)
          [] c.pc = "a311" -> "finish"

\* The loop index of the call made next.
InitIndex(e, k) ==
    LET c == initc[e][k]
    IN  CASE c.pc = "a299" -> 1
          [] c.pc = "a303" -> IF isEmpty(c.account) THEN c.i ELSE c.i + 1
          [] c.pc = "a308" -> c.i + 1
          [] OTHER -> c.i

\* What the call `t` of init() on engine e does to the objects it touches; `f`
\* says that the store call fails (the promise rejects and init() throws).
InitEffect(e, k, t, i, f) ==
    LET s == stores[eng[e].stateManager]
        b == chains[eng[e].blockchain]
        c == IF initc[e][k].pc = "idle" THEN [IdleCall EXCEPT !.d0 = Depth(s)]
             ELSE initc[e][k]
        pre == getActivePrecompiles(commons[eng[e]._common])
        same == [store |-> s, chain |-> b, call |-> c, flag |-> eng[e]._isInitialized,
                 done |-> "no"]
    IN  CASE t = "return" -> [same EXCEPT !.done = "returned"]
          [] t = "finish" -> [same EXCEPT !.flag = TRUE, !.done = "returned"]
          [] f \/ (t = "commit" /\ Depth(s) = 0) -> [same EXCEPT !.done = "threw"]
          [] t = "blockchainInit" ->
                [same EXCEPT !.chain = blockchainInit(b), !.call.pc = "a290",
                             !.call.steps = @ \cup {"blockchainInit"}]
          [] t = "genesis" ->
                [same EXCEPT !.store = generateCanonicalGenesis(s), !.call.pc = "a294",
                             !.call.steps = @ \cup {"genesis"}]
          [] t = "checkpoint" ->
                [same EXCEPT !.store = checkpoint(s), !.call.pc = "a299",
                             !.call.before = s.accounts]
          [] t = "get" ->
                [same EXCEPT !.call.account = getAccount(s, pre[i]), !.call.i = i,
                             !.call.pc = "a303"]
          [] t = "put" ->
                [same EXCEPT
                    !.store = putAccount(s, pre[i], fromAccountData(1, c.account.stateRoot)),
                    !.call.i = i, !.call.pc = "a308"]
          [] t = "commit" ->
                [same EXCEPT !.store = commit(s), !.call.pc = "a311",
                             !.call.steps = @ \cup {"commit"}]

\* VM.create that returns the object without awaiting init().
CreateReturnsUnawaited(viaCreate, done) == viaCreate

\* `await vm.init(); return vm`: VM.create hands the object out when the init()
\* call it made has returned.
CreateReturns(viaCreate, done) == viaCreate /\ done = "returned"

\* One step of the init() call in slot k of engine e: from the call, or from the
\* await it is suspended at, to the next await, the return or the throw.
InitRun(e, k) ==
    \E f \in FaultChoice :
        LET c == IF initc[e][k].pc = "idle"
                 THEN [IdleCall EXCEPT !.d0 = Depth(stores[eng[e].stateManager])]
                 ELSE initc[e][k]
            t == InitTarget(e, k)
            r == InitEffect(e, k, t, InitIndex(e, k), f)
            fails == f /\ t \notin {"return", "finish"}
        IN  /\ stores' = [stores EXCEPT ![eng[e].stateManager] = r.store]
            /\ chains' = [chains EXCEPT ![eng[e].blockchain] = r.chain]
            /\ initc' = [initc EXCEPT ![e][k] = IF r.done = "no" THEN r.call ELSE IdleCall]
            /\ eng' = [eng EXCEPT
                    ![e]._isInitialized = r.flag,
                    ![e].returned = @ \/ CreateReturns(c.viaCreate, r.done)]
            /\ faults' = IF fails THEN faults + 1 ELSE faults
            /\ last' = [op |-> "init", eng |-> e, res |-> r.done, call |-> t,
                        entry |-> (initc[e][k].pc = "idle"),
                        d0 |-> c.d0, d1 |-> Depth(r.store),
                        viaCreate |-> c.viaCreate, before |-> c.before,
                        steps |-> r.call.steps]
            /\ UNCHANGED <<tries, dbs, tlast, nTrieOps, nEng, commons, op, builder, twin, nOps>>

\* init() called on an engine the caller holds: the call runs to its first await.
InitCall(e, k) ==
    /\ e <= nEng
    /\ eng[e].returned
    /\ initc[e][k].pc = "idle"
    /\ \A j \in Slots : j < k => initc[e][j].pc # "idle"
    /\ InitRun(e, k)

\* A suspended init() call is resumed.
InitStep(e, k) ==
    /\ e <= nEng
    /\ initc[e][k].pc # "idle"
    /\ InitRun(e, k)

\* A copy and its original are compared call by call: `side` is "none" when
\* every call completed on one since the copy was taken has been completed on
\* the other with the same input, "orig" or "copy" when that side is one call
\* (`entry`) ahead, and "diverged" once the two sequences differ.
InStep == [side |-> "none", entry |-> [op |-> <<"none">>, arg |-> 0]]

Diverged == [side |-> "diverged", entry |-> [op |-> <<"none">>, arg |-> 0]]

Advance(t, side, entry) ==
    CASE t.side = "none" -> [side |-> side, entry |-> entry]
      [] t.side = "diverged" \/ t.side = side -> Diverged
      [] OTHER -> IF t.entry.op = entry.op /\ t.entry.arg = entry.arg
                  THEN InStep ELSE Diverged

\* The call `entry` has completed on engine e.
Mirror(e, entry) ==
    [c \in Engines |->
        IF c = e /\ eng[c].copyOf # 0 THEN Advance(twin[c], "copy", entry)
        ELSE IF c # e /\ eng[c].copyOf = e THEN Advance(twin[c], "orig", entry)
        ELSE twin[c]]

(***************************************************************************)
(* VM.create and copy().                                                   *)
(***************************************************************************)
\* The chain parameters callers pass as opts.common.
CommonInputs ==
    {[hardfork |-> "chainstart", eips |-> {}],
     [hardfork |-> "london", eips |-> {1559}],
     [hardfork |-> "london", eips |-> {1559, 4844}],
     [hardfork |-> "shanghai", eips |-> {}]}

GivenCommon(c, n) == [given |-> TRUE, hardfork |-> c.hardfork, eips |-> c.eips, ref |-> n]

\* Every options object over the recognized keys and the two legacy keys; a
\* supplied state store or chain parameter object lives in slot n.
AllOpts(n) ==
    [chain : BOOLEAN, hardfork : BOOLEAN,
     common : {NoCommon} \cup {GivenCommon(c, n) : c \in CommonInputs},
     stateManager : {NoRef, n}, blockchain : {NoRef},
     activatePrecompiles : BOOLEAN, activateGenesisState : BOOLEAN,
     hardforkByBlockNumber : {"undefined", "false", "true"},
     hardforkByTD : {NoTD, 0, 2},
     eei : {"default", "custom"}, evm : {"default", "custom"}]

\* The options the engines of the life-cycle specification are created with:
\* every combination of the options init() reads.
LifecycleOpts(n) ==
    {o \in AllOpts(n) :
        /\ ~o.chain /\ ~o.hardfork
        /\ ~o.common.given
        /\ o.hardforkByBlockNumber = "undefined" /\ o.hardforkByTD = NoTD
        /\ o.eei = "default" /\ o.evm = "default"}

\* The options of the engines that execute: the genesis state; the default
\* chain parameters, or given ones at a hardfork the engine does not support;
\* the hardfork selected by block number, by total difficulty, or not.
ExecOpts(n) ==
    {o \in AllOpts(n) :
        /\ ~o.chain /\ ~o.hardfork
        /\ o.common.given => o.common.hardfork = "shanghai"
        /\ <<o.hardforkByBlockNumber, o.hardforkByTD>>
                \in {<<"undefined", NoTD>>, <<"true", NoTD>>, <<"undefined", 2>>}
        /\ o.eei = "default" /\ o.evm = "default"
        /\ o.stateManager = NoRef
        /\ o.activateGenesisState /\ ~o.activatePrecompiles}

\* `const vm = new this(opts); await vm.init()`, up to init()'s first await: on
\* a constructor error nothing is kept; otherwise the VM object takes slot n,
\* with the objects the constructor created or was given (`sup`: the contents of
\* the given ones), and init() has called the block store's _init().
Construct(opts, sup, origin, from) ==
    \E f \in FaultChoice :
    LET n == nEng + 1
        c == Constructor(opts)
        bc == IF opts.blockchain = NoRef THEN NewChain
              ELSE IF opts.blockchain = n THEN sup.chain ELSE chains[opts.blockchain]
    IN  IF c.err # "ok"
        THEN /\ last' = [op |-> origin, eng |-> 0, res |-> c.err, created |-> c.created,
                         opts |-> opts]
             /\ UNCHANGED <<tries, dbs, tlast, nTrieOps, eng, nEng, stores, chains, commons, initc, op, builder, twin,
                            faults, nOps>>
        ELSE /\ nEng' = n
             /\ eng' = [eng EXCEPT ![n] =
                    [NewEngine(opts, n) EXCEPT
                        !.copyOf = from]]
             /\ stores' = [stores EXCEPT ![n] =
                    IF opts.stateManager = NoRef THEN NewStore
                    ELSE IF opts.stateManager = n THEN sup.store ELSE @]
             /\ chains' = [chains EXCEPT
                    ![IF opts.blockchain = NoRef THEN n ELSE opts.blockchain] =
                        IF f THEN bc ELSE blockchainInit(bc)]
             /\ commons' = [commons EXCEPT ![n] =
                    IF ~opts.common.given THEN DefaultCommon
                    ELSE IF opts.common.ref = n THEN sup.common ELSE @]
             /\ initc' = [initc EXCEPT ![n][1] =
                    IF f THEN IdleCall
                    ELSE [IdleCall EXCEPT !.pc = "a290", !.viaCreate = TRUE,
                            !.steps = {"blockchainInit"},
                            !.d0 = IF opts.stateManager \in {NoRef, n} THEN 0
                                   ELSE Depth(stores[opts.stateManager])]]
             /\ twin' = [twin EXCEPT ![n] =
                    IF from # 0 /\ op[from] # << >> THEN Diverged ELSE InStep]
             /\ faults' = IF f THEN faults + 1 ELSE faults
             /\ last' = [op |-> origin, eng |-> n, res |-> IF f THEN "threw" ELSE "ok",
                         created |-> c.created, opts |-> opts]
             /\ UNCHANGED <<tries, dbs, tlast, nTrieOps, op, builder, nOps>>

\* What a caller who passes its own objects passes.
Supplied(opts) ==
    [store |-> ExternalStore, chain |-> NewChain,
     common |-> [hardfork |-> opts.common.hardfork, eips |-> opts.common.eips]]

\* VM.create(opts)
Create ==
    /\ nEng < MaxEngines
    /\ \E opts \in LifecycleOpts(nEng + 1) : Construct(opts, Supplied(opts), "create", 0)

\* VM.create(opts) of the engine that is to execute: its sender is funded by
\* the genesis state.
CreateExec ==
    /\ nEng = 0
    /\ \E opts \in ExecOpts(nEng + 1) : Construct(opts, Supplied(opts), "create", 0)

\* `new this(opts)` in a factory of a subclass (the constructor is protected):
\* the caller holds an object on which init() has not been called.
New ==
    /\ nEng = 0
    /\ \E opts \in {o \in LifecycleOpts(1) : o.stateManager = NoRef} :
        /\ Constructor(opts).err = "ok"
        /\ nEng' = 1
        /\ eng' = [eng EXCEPT ![1] = [NewEngine(opts, 1) EXCEPT !.returned = TRUE]]
        /\ stores' = [stores EXCEPT ![1] = NewStore]
        /\ chains' = [chains EXCEPT ![1] = NewChain]
        /\ commons' = [commons EXCEPT ![1] = DefaultCommon]
        /\ last' = [op |-> "new", eng |-> 1, res |-> "ok",
                    created |-> Constructor(opts).created, opts |-> opts]
        /\ UNCHANGED <<tries, dbs, tlast, nTrieOps, initc, op, builder, twin, faults, nOps>>

\* The first VM.create(opts) call of a program, over every options object.
CreateAny ==
    /\ nEng = 0
    /\ last.op = "none"
    /\ \E opts \in AllOpts(1) : Construct(opts, Supplied(opts), "create", 0)

\* The options copy() passes to VM.create: copies of the state store, the block
\* store and the chain parameters, and nothing else.
CopyOptsSharingState(e, n) ==
    [chain |-> FALSE, hardfork |-> FALSE,
     common |-> GivenCommon(commons[eng[e]._common], n),
     stateManager |-> eng[e].stateManager, blockchain |-> n,
     activatePrecompiles |-> FALSE, activateGenesisState |-> FALSE,
     hardforkByBlockNumber |-> "undefined", hardforkByTD |-> NoTD,
     eei |-> "default", evm |-> "default"]

CopyOpts(e, n) ==
    [chain |-> FALSE, hardfork |-> FALSE,
     common |-> GivenCommon(commons[eng[e]._common], n),
     stateManager |-> n, blockchain |-> n,
     activatePrecompiles |-> FALSE, activateGenesisState |-> FALSE,
     hardforkByBlockNumber |-> "undefined", hardforkByTD |-> NoTD,
     eei |-> "default", evm |-> "default"]

\* copy()
Copy(e) ==
    /\ e <= nEng
    /\ eng[e].returned
    /\ nEng < MaxEngines
    /\ Construct(CopyOpts(e, nEng + 1),
                 [store |-> StateManagerCopy(stores[eng[e].stateManager]),
                  chain |-> BlockchainCopy(chains[eng[e].blockchain]),
                  common |-> CommonCopy(commons[eng[e]._common])],
                 "copy", e)

(***************************************************************************)
(* The transaction runner (spec.md 4.4).  Gas is counted in units of a     *)
(* third of a plain transfer's gas limit, prices in units of the base fee. *)
(***************************************************************************)
IntrinsicGas == 2
BlockGasLimit == 6
BaseFee == 1

\* Whether the fee-market amendment is on in a rule-set.
IsFeeMarket(hf) == hf \in {"london", "arrowGlacier", "mergeForkIdTransition", "merge"}

\* Transactions of the sender to the coinbase address: type 0 is a legacy
\* transaction (maxFee is its gas price), type 2 a fee-market one with no
\* priority fee.
Tx(type, nonce, gasLimit, maxFee, value) ==
    [type |-> type, nonce |-> nonce, gasLimit |-> gasLimit, maxFee |-> maxFee,
     value |-> value]

TxInputs ==
    {Tx(0, 0, 3, 1, 1),     \* admissible on a fresh sender
     Tx(0, 1, 3, 1, 1),     \* admissible after one transaction
     Tx(0, 0, 1, 1, 1),     \* gas limit under the intrinsic gas
     Tx(0, 0, 7, 1, 0),     \* gas limit over the block's
     Tx(2, 0, 3, 1, 1),     \* fee-market transaction
     Tx(2, 0, 3, 0, 1),     \* fee cap under the base fee
     Tx(0, 0, 3, 1, 9)}     \* value the sender does not have

EffectiveGasPrice(hf, tx) ==
    IF tx.type = 2
    THEN (IF tx.maxFee < BaseFee THEN tx.maxFee ELSE BaseFee)
    ELSE tx.maxFee

\* The part of the price the coinbase is paid.
PriorityFee(hf, tx) ==
    IF IsFeeMarket(hf)
    THEN (IF EffectiveGasPrice(hf, tx) > BaseFee
          THEN EffectiveGasPrice(hf, tx) - BaseFee ELSE 0)
    ELSE EffectiveGasPrice(hf, tx)

Account(accounts, a) == IF accounts[a].present THEN accounts[a] ELSE NoAccount

\* Pre-execution checks 2 to 7, in order; gasAvailable is the block's gas limit
\* less the gas used so far.
TxValidate(accounts, hf, tx, gasAvailable) ==
    LET sender == Account(accounts, Sender)
    IN  IF tx.type = 2 /\ ~IsFeeMarket(hf) THEN "UnsupportedTxType"
        ELSE IF tx.gasLimit > gasAvailable THEN "BlockGasLimitExceeded"
        ELSE IF tx.gasLimit < IntrinsicGas THEN "IntrinsicGasTooLow"
        ELSE IF sender.nonce # tx.nonce THEN "NonceMismatch"
        ELSE IF tx.type = 2 /\ tx.maxFee < BaseFee THEN "FeeCapBelowBaseFee"
        ELSE IF sender.balance < tx.gasLimit * EffectiveGasPrice(hf, tx) + tx.value
        THEN "InsufficientFunds"
        ELSE "ok"

ValidationErrors ==
    {"UnsupportedTxType", "BlockGasLimitExceeded", "IntrinsicGasTooLow", "NonceMismatch",
     "FeeCapBelowBaseFee", "InsufficientFunds"}

\* A credit; an account that stays empty is not created.
Credit(accounts, a, amount) ==
    IF amount = 0 /\ ~accounts[a].present THEN accounts
    ELSE [accounts EXCEPT ![a] =
            [Account(accounts, a) EXCEPT !.present = TRUE, !.balance = @ + amount]]

\* Execution step 2: the up-front fee and the nonce.
TxDebit(accounts, hf, tx) ==
    [accounts EXCEPT ![Sender] =
        [@ EXCEPT !.balance = @ - tx.gasLimit * EffectiveGasPrice(hf, tx),
                  !.nonce = @ + 1]]

\* What the interpreter may return for a message with `gas`.
InterpreterResults(gas) ==
    {[status |-> "success", gasLeft |-> gas],
     [status |-> "revert", gasLeft |-> gas],
     [status |-> "exceptional-halt", gasLeft |-> 0]}

TxResults(tx) == InterpreterResults(tx.gasLimit - IntrinsicGas)

\* Execution steps 5 to 9 on the debited accounts: the refund of the unused
\* gas, the coinbase's fee, and the value transfer of a successful message.
TxFinish(accounts, hf, tx, r) ==
    LET gasUsed == tx.gasLimit - r.gasLeft
        refunded == Credit(accounts, Sender, r.gasLeft * EffectiveGasPrice(hf, tx))
        paid == Credit(refunded, Coinbase, gasUsed * PriorityFee(hf, tx))
    IN  IF r.status = "success"
        THEN Credit(Credit(paid, Sender, 0 - tx.value), Coinbase, tx.value)
        ELSE paid

\* runTx as the block runner and the builder call it, on the accounts.
ApplyTx(accounts, hf, tx, gasAvailable, r) ==
    LET err == TxValidate(accounts, hf, tx, gasAvailable)
    IN  IF err # "ok"
        THEN [err |-> err, accounts |-> accounts, gasUsed |-> 0, log |-> 0]
        ELSE [err |-> "ok",
              accounts |-> TxFinish(TxDebit(accounts, hf, tx), hf, tx, r),
              gasUsed |-> tx.gasLimit - r.gasLeft,
              log |-> IF r.status = "success" THEN 1 ELSE 0]

(***************************************************************************)
(* SecureTrie (src/unnamed/part_000): a checkpoint trie whose keys are      *)
(* hashed with keccak256.                                                  *)
(***************************************************************************)
Tries == 1..MaxTries

\* Byte strings are numbers of Words; the keys callers use are two of them, and
\* the first one's hash is the second.
Words == 0..7
TrieKeys == {0, 1}

\* keccak256: one-to-one, and no word is its own hash.
keccak256(w) == (3 * w + 1) % 8

\* A value is null or a Buffer, a sequence of bytes.
NullValue == [null |-> TRUE, bytes |-> << >>]

Buffer(bytes) == [null |-> FALSE, bytes |-> bytes]

TrieValues == {NullValue, Buffer(<< >>), Buffer(<<1>>), Buffer(<<2>>)}

isFalsy(val) == val.null

\* Buffer.toString(): one character per byte.
BufferToString(val) == [i \in 1..Len(val.bytes) |-> <<"char", val.bytes[i]>>]

\* The root of a trie stands for its leaves: the set of (key, value) pairs.
EmptyRoot == {}

\* super.get(hash): the value at the key, null when there is none.
TrieGet(root, hash) ==
    IF \E leaf \in root : leaf[1] = hash
    THEN (CHOOSE leaf \in root : leaf[1] = hash)[2]
    ELSE NullValue

\* super.del(hash)
TrieDel(root, hash) == {leaf \in root : leaf[1] # hash}

\* super.put(hash, val)
TriePut(root, hash, val) == TrieDel(root, hash) \cup {<<hash, val>>}

\* SecureTrie.get
SecureTrieGet(root, key) == TrieGet(root, keccak256(key))

\* A del that hands the key to the trie as it is.
SecureTrieDelUnhashed(root, key) == TrieDel(root, key)

\* SecureTrie.del
SecureTrieDel(root, key) == TrieDel(root, keccak256(key))

\* A put that hashes the key and hands the hash to SecureTrie.del.
SecureTriePutHashingTwice(root, key, val) ==
    IF isFalsy(val) \/ BufferToString(val) = << >>
    THEN SecureTrieDel(root, keccak256(key))
    ELSE TriePut(root, keccak256(key), val)

\* SecureTrie.put
SecureTriePut(root, key, val) ==
    IF isFalsy(val) \/ BufferToString(val) = << >>
    THEN SecureTrieDel(root, key)
    ELSE TriePut(root, keccak256(key), val)

NoTrie == [present |-> FALSE, root |-> EmptyRoot, db |-> 0, copyOf |-> 0]

\* new SecureTrie({ db, root }), its CheckpointDB being object d.
NewSecureTrie(root, d) == [present |-> TRUE, root |-> root, db |-> d, copyOf |-> 0]

\* A CheckpointDB as the constructor leaves it.
NewCheckpointDB == [checkpoints |-> << >>]

\* this.db.checkpoints
Checkpoints(t) == dbs[tries[t].db].checkpoints

\* this.isCheckpoint
isCheckpoint(t) == Len(Checkpoints(t)) > 0

\* A copy that is handed the original's CheckpointDB.
CopyDbShared(t, n) == tries[t].db

\* `db: this.dbStorage.copy()`: the copy gets a CheckpointDB of its own.
CopyDb(t, n) == n

\* `if (includeCheckpoints && this.isCheckpoint)
\*      secureTrie.db.checkpoints = [...this.db.checkpoints]`
CopyCheckpoints(t, includeCheckpoints) ==
    IF includeCheckpoints /\ isCheckpoint(t) THEN Checkpoints(t) ELSE << >>

\* A trie call returns; `pre` is the root at the call.
TrieReturned(name, t, key, val, res) ==
    /\ tlast' = [op |-> name, trie |-> t, key |-> key, val |-> val, res |-> res,
                 pre |-> tries[t].root]
    /\ nTrieOps' = nTrieOps + 1
    /\ UNCHANGED <<eng, nEng, stores, chains, commons, initc, op, builder, twin, last,
                   faults, nOps>>

TrieCallable(t) == tries[t].present /\ nTrieOps < MaxTrieOps

\* get(key)
Get(t, key) ==
    /\ TrieCallable(t)
    /\ TrieReturned("get", t, key, NullValue, SecureTrieGet(tries[t].root, key))
    /\ UNCHANGED <<tries, dbs>>

\* put(key, val)
Put(t, key, val) ==
    /\ TrieCallable(t)
    /\ tries' = [tries EXCEPT ![t].root = SecureTriePut(@, key, val)]
    /\ TrieReturned("put", t, key, val, NullValue)
    /\ UNCHANGED dbs

\* del(key)
Del(t, key) ==
    /\ TrieCallable(t)
    /\ tries' = [tries EXCEPT ![t].root = SecureTrieDel(@, key)]
    /\ TrieReturned("del", t, key, NullValue, NullValue)
    /\ UNCHANGED dbs

\* checkpoint(): the root is pushed.
TrieCheckpoint(t) ==
    /\ TrieCallable(t)
    /\ Len(Checkpoints(t)) < MaxDepth
    /\ dbs' = [dbs EXCEPT ![tries[t].db].checkpoints = Append(@, [root |-> tries[t].root])]
    /\ TrieReturned("checkpoint", t, 0, NullValue, NullValue)
    /\ UNCHANGED tries

\* commit(): the last checkpoint is dropped, the root stays.
TrieCommit(t) ==
    /\ TrieCallable(t)
    /\ isCheckpoint(t)
    /\ dbs' = [dbs EXCEPT ![tries[t].db].checkpoints = SubSeq(@, 1, Len(@) - 1)]
    /\ TrieReturned("commit", t, 0, NullValue, NullValue)
    /\ UNCHANGED tries

\* revert(): the last checkpoint is dropped and its root restored.
TrieRevert(t) ==
    /\ TrieCallable(t)
    /\ isCheckpoint(t)
    /\ tries' = [tries EXCEPT ![t].root = Checkpoints(t)[Len(Checkpoints(t))].root]
    /\ dbs' = [dbs EXCEPT ![tries[t].db].checkpoints = SubSeq(@, 1, Len(@) - 1)]
    /\ TrieReturned("revert", t, 0, NullValue, NullValue)

\* copy(includeCheckpoints): the new trie takes the first free slot; the call
\* is recorded with the flag as its key (1 for true) and the slot as its result.
TrieCopy(t, includeCheckpoints) ==
    /\ TrieCallable(t)
    /\ \E n \in Tries :
        /\ ~tries[n].present
        /\ \A m \in Tries : m < n => tries[m].present
        /\ tries' = [tries EXCEPT ![n] =
                [NewSecureTrie(tries[t].root, CopyDb(t, n)) EXCEPT !.copyOf = t]]
        /\ dbs' = [dbs EXCEPT ![CopyDb(t, n)].checkpoints =
                CopyCheckpoints(t, includeCheckpoints)]
        /\ TrieReturned("copy", t, IF includeCheckpoints THEN 1 ELSE 0, NullValue,
                        Buffer(<<n>>))

(***************************************************************************)
(* The rule-set oracle (4.1) and the block runner (4.5).                   *)
(***************************************************************************)
\* The chain configuration: chainstart from block 0, london from block 1,
\* shanghai from block 2; merge from total difficulty 1, shanghai from total
\* difficulty 2.
HardforkAt(number, td) ==
    IF td # NoTD /\ td >= 2 THEN "shanghai"
    ELSE IF td # NoTD /\ td >= 1 THEN "merge"
    ELSE IF number >= 2 THEN "shanghai"
    ELSE IF number >= 1 THEN "london" ELSE "chainstart"

\* The rule-set a block runs under, `current` being the chain parameters' own.
ResolveHardfork(e, number, current) ==
    IF eng[e]._hardforkByBlockNumber \/ eng[e]._hardforkByTD # NoTD
    THEN HardforkAt(number, eng[e]._hardforkByTD)
    ELSE current

\* The miner reward of a rule-set.
MinerReward(hf) ==
    CASE hf = "chainstart" -> 5
      [] hf = "merge" -> 0
      [] OTHER -> 2

BlockBodies ==
    {<< >>,
     <<Tx(0, 0, 3, 1, 1), Tx(0, 1, 3, 1, 1)>>,
     <<Tx(0, 0, 3, 1, 1), Tx(0, 0, 3, 1, 1)>>}

\* The header field that differs from what running the block computes.
HeaderFaults == {"none", "stateRoot", "gasUsed", "logsBloom", "receiptTrie"}

\* Step 4: the transactions from the i-th on, in order.
RECURSIVE RunTxs(_, _, _, _, _, _, _)
RunTxs(accounts, hf, txs, rs, i, gasUsed, bloom) ==
    IF i > Len(txs)
    THEN [err |-> "ok", accounts |-> accounts, gasUsed |-> gasUsed, bloom |-> bloom]
    ELSE LET r == ApplyTx(accounts, hf, txs[i], BlockGasLimit - gasUsed, rs[i])
         IN  IF r.err # "ok"
             THEN [err |-> r.err, accounts |-> r.accounts, gasUsed |-> gasUsed,
                   bloom |-> bloom]
             ELSE RunTxs(r.accounts, hf, txs, rs, i + 1, gasUsed + r.gasUsed,
                         IF r.log = 1 THEN 1 ELSE bloom)

\* Steps 4 to 6 on the accounts: the error and its cause ("tx": a transaction
\* failed; "header": a computed value differs from the header's), and the
\* accounts the steps leave.
ApplyBlock(accounts, hf, txs, rs, generate, headerFault) ==
    LET t == RunTxs(accounts, hf, txs, rs, 1, 0, 0)
        rewarded == Credit(t.accounts, Coinbase, MinerReward(hf))
    IN  IF t.err # "ok"
        THEN [err |-> t.err, cause |-> "tx", accounts |-> t.accounts]
        ELSE IF ~generate /\ headerFault # "none"
        THEN [err |-> headerFault, cause |-> "header", accounts |-> rewarded]
        ELSE [err |-> "ok", cause |-> "none", accounts |-> rewarded]

\* Whether runBlock reverts the block's checkpoint on an error: "If `generate`
\* is `true`, the state modifications will be reverted if an exception is
\* raised. If it's `false`, it won't revert if the block's header is invalid."
RunBlockReverts(generate, cause) == generate \/ cause # "header"

\* The interpreter results for the transactions of a block: every message of
\* the block ends the same way.
ResultSeqs(txs) ==
    {[i \in 1..Len(txs) |-> r] : r \in InterpreterResults(1)}

(***************************************************************************)
(* The public execution methods.  A call in progress is an entry of op[e]. *)
(***************************************************************************)
\* Whether a serialized operation is in progress on the engine.
EngineBusyNever(e) == FALSE

EngineBusy(e) == op[e] # << >>

Store(e) == stores[eng[e].stateManager]

Hardfork(e) == commons[eng[e]._common].hardfork

\* A public execution method can be called on an engine the caller holds.
Callable(e) == e <= nEng /\ eng[e].returned /\ nOps < MaxOps

SetStore(e, store) == stores' = [stores EXCEPT ![eng[e].stateManager] = store]

\* The call throws before it is suspended.
Rejected(e, name, arg, res) ==
    /\ last' = [op |-> name, eng |-> e, res |-> res, arg |-> arg, busy |-> op[e] # << >>,
                initialized |-> eng[e]._isInitialized, pre |-> Store(e)]
    /\ nOps' = nOps + 1
    /\ twin' = Mirror(e, [op |-> <<name, "rejected">>, arg |-> arg])
    /\ UNCHANGED <<tries, dbs, tlast, nTrieOps, eng, nEng, chains, commons, initc, op, builder, faults>>

\* The call has passed its checks and is suspended.
Started(e, name, arg, entry) ==
    /\ last' = [op |-> name, eng |-> e, res |-> "started", arg |-> arg,
                busy |-> op[e] # << >>, initialized |-> eng[e]._isInitialized,
                pre |-> Store(e)]
    /\ nOps' = nOps + 1
    /\ op' = [op EXCEPT ![e] = Append(@, entry)]
    /\ UNCHANGED <<tries, dbs, tlast, nTrieOps, eng, nEng, chains, initc, builder, twin, faults>>

\* The call in progress at index j returns or throws.
Finished(e, j, name, arg, res, cause) ==
    /\ last' = [op |-> name, eng |-> e, res |-> res, busy |-> FALSE,
                generate |-> (name = "runBlock" /\ arg.generate),
                initialized |-> eng[e]._isInitialized, pre |-> op[e][j].pre,
                cause |-> cause]
    /\ op' = [op EXCEPT ![e] = SubSeq(@, 1, j - 1) \o SubSeq(@, j + 1, Len(@))]
    /\ twin' = Mirror(e, [op |-> <<name>>, arg |-> arg])
    /\ UNCHANGED <<tries, dbs, tlast, nTrieOps, eng, nEng, chains, commons, initc, faults, nOps>>

\* A transaction runner that opens its checkpoint and debits the sender before
\* the pre-execution checks.
RunTxStartDebitFirst(store, hf, tx, gasAvailable) ==
    [err |-> TxValidate(store.accounts, hf, tx, gasAvailable),
     store |-> [checkpoint(store) EXCEPT !.accounts = TxDebit(@, hf, tx)]]

\* The transaction runner to the interpreter's call: the pre-execution checks,
\* then the outer checkpoint and the up-front debit.
RunTxStart(store, hf, tx, gasAvailable) ==
    LET err == TxValidate(store.accounts, hf, tx, gasAvailable)
    IN  [err |-> err,
         store |-> IF err # "ok" THEN store
                   ELSE [checkpoint(store) EXCEPT !.accounts = TxDebit(@, hf, tx)]]

\* runTx(opts), to the interpreter's call.
RunTxBegin(e, tx) ==
    /\ Callable(e)
    /\ LET s == RunTxStart(Store(e), Hardfork(e), tx, BlockGasLimit)
       IN  IF EngineBusy(e)
           THEN Rejected(e, "runTx", tx, "EngineBusy") /\ UNCHANGED stores
           ELSE IF s.err # "ok"
           THEN Rejected(e, "runTx", tx, s.err) /\ SetStore(e, s.store)
           ELSE /\ SetStore(e, s.store)
                /\ Started(e, "runTx", tx,
                           [kind |-> "runTx", tx |-> tx, pre |-> Store(e)])
                /\ UNCHANGED commons

\* runTx, from the interpreter's return; for a builder's addTransaction, the
\* builder then counts the gas used.
RunTxEnd(e, j, status) ==
    /\ e <= nEng
    /\ j \in 1..Len(op[e])
    /\ op[e][j].kind \in {"runTx", "addTransaction"}
    /\ \E r \in {x \in TxResults(op[e][j].tx) : x.status = status} :
        /\ SetStore(e, commit([Store(e) EXCEPT
                !.accounts = TxFinish(@, Hardfork(e), op[e][j].tx, r)]))
        /\ Finished(e, j, op[e][j].kind, [tx |-> op[e][j].tx, r |-> r], "ok", "none")
        /\ builder' = [builder EXCEPT ![e] =
                IF op[e][j].kind = "addTransaction"
                THEN [@ EXCEPT !.gasUsed = @ + op[e][j].tx.gasLimit - r.gasLeft]
                ELSE @]

\* runBlock(opts), to the first transaction: the rule-set of the block's number,
\* which has to be a supported one, and the block-scope checkpoint.
RunBlockBegin(e, number) ==
    /\ Callable(e)
    /\ IF EngineBusy(e)
       THEN Rejected(e, "runBlock", number, "EngineBusy") /\ UNCHANGED stores
       ELSE IF HardforkUnsupported(ResolveHardfork(e, number, Hardfork(e)))
       THEN Rejected(e, "runBlock", number, "UnsupportedRuleSet") /\ UNCHANGED stores
       ELSE /\ commons' = [commons EXCEPT
                    ![eng[e]._common].hardfork = ResolveHardfork(e, number, @)]
            /\ SetStore(e, checkpoint(Store(e)))
            /\ Started(e, "runBlock", number,
                       [kind |-> "runBlock", number |-> number, pre |-> Store(e)])

\* runBlock, from the first transaction: the transactions, the reward, the
\* header's values against the computed ones, and the commit or the revert.
RunBlockEnd(e, j, txs, generate, headerFault, status) ==
    /\ e <= nEng
    /\ j \in 1..Len(op[e])
    /\ op[e][j].kind = "runBlock"
    /\ \E rs \in {x \in ResultSeqs(txs) : \A i \in 1..Len(x) : x[i].status = status} :
        LET b == ApplyBlock(Store(e).accounts, Hardfork(e), txs, rs, generate, headerFault)
            arg == [number |-> op[e][j].number, txs |-> txs, rs |-> rs,
                    generate |-> generate, headerFault |-> headerFault]
        IN  /\ SetStore(e, IF b.err # "ok" /\ RunBlockReverts(generate, b.cause)
                           THEN revert(Store(e))
                           ELSE commit([Store(e) EXCEPT !.accounts = b.accounts]))
            /\ Finished(e, j, "runBlock", arg, b.err, b.cause)
            /\ UNCHANGED builder

(***************************************************************************)
(* The blockchain driver (4.6) and the block builder (4.7).                *)
(***************************************************************************)
Block(number, txs, headerFault) ==
    [number |-> number, txs |-> txs, headerFault |-> headerFault]

\* The chains of blocks runBlockchain is given.
ChainInputs ==
    {<< >>,
     <<Block(1, <<Tx(0, 0, 3, 1, 1), Tx(0, 1, 3, 1, 1)>>, "none")>>,
     <<Block(0, << >>, "none"), Block(1, <<Tx(0, 0, 3, 1, 1), Tx(0, 0, 3, 1, 1)>>, "none")>>,
     <<Block(1, << >>, "none"), Block(2, << >>, "none")>>}

\* The blocks from the i-th on through the block runner, validation on: stop at
\* the first that fails.
RECURSIVE RunBlocks(_, _, _, _, _, _)
RunBlocks(e, accounts, hf, blocks, r, i) ==
    IF i > Len(blocks)
    THEN [err |-> "ok", accounts |-> accounts, hf |-> hf, done |-> i - 1]
    ELSE LET blk == blocks[i]
             h == ResolveHardfork(e, blk.number, hf)
             b == ApplyBlock(accounts, h, blk.txs, [x \in 1..Len(blk.txs) |-> r],
                             FALSE, blk.headerFault)
         IN  IF HardforkUnsupported(h)
             THEN [err |-> "UnsupportedRuleSet", accounts |-> accounts, hf |-> hf,
                   done |-> i - 1]
             ELSE IF b.err # "ok"
             THEN [err |-> b.err,
                   accounts |-> IF RunBlockReverts(FALSE, b.cause) THEN accounts
                                ELSE b.accounts,
                   hf |-> h, done |-> i - 1]
             ELSE RunBlocks(e, b.accounts, h, blocks, r, i + 1)

\* runBlockchain(blockchain), to its first block.
RunBlockchainBegin(e) ==
    /\ Callable(e)
    /\ IF EngineBusy(e)
       THEN Rejected(e, "runBlockchain", 0, "EngineBusy") /\ UNCHANGED stores
       ELSE /\ Started(e, "runBlockchain", 0, [kind |-> "runBlockchain", pre |-> Store(e)])
            /\ UNCHANGED <<stores, commons>>

\* runBlockchain, from its first block: each block in order, the canonical
\* pointer advanced past those that ran.
RunBlockchainEnd(e, j, blocks, status) ==
    /\ e <= nEng
    /\ j \in 1..Len(op[e])
    /\ op[e][j].kind = "runBlockchain"
    /\ \E r \in {x \in InterpreterResults(1) : x.status = status} :
        LET b == RunBlocks(e, Store(e).accounts, Hardfork(e), blocks, r, 1)
        IN  /\ SetStore(e, [Store(e) EXCEPT !.accounts = b.accounts])
            /\ last' = [op |-> "runBlockchain", eng |-> e, res |-> b.err, busy |-> FALSE,
                        initialized |-> eng[e]._isInitialized, pre |-> op[e][j].pre]
            /\ op' = [op EXCEPT ![e] = SubSeq(@, 1, j - 1) \o SubSeq(@, j + 1, Len(@))]
            /\ twin' = Mirror(e, [op |-> <<"runBlockchain">>,
                                   arg |-> [blocks |-> blocks, r |-> r]])
            /\ commons' = [commons EXCEPT ![eng[e]._common].hardfork = b.hf]
            /\ chains' = [chains EXCEPT ![eng[e].blockchain].head = @ + b.done]
            /\ UNCHANGED <<tries, dbs, tlast, nTrieOps, eng, nEng, initc, builder, faults, nOps>>

\* A builder that never closes.
BuilderNeverClosed(e) == FALSE

\* Whether the builder of engine e has had its terminal call.
BuilderIsClosed(e) == builder[e].status \in {"built", "reverted"}

\* A builder call that returns or throws at once.
BuilderCall(e, name, res, newStore, newBuilder) ==
    /\ last' = [op |-> name, eng |-> e, res |-> res, arg |-> 0, busy |-> op[e] # << >>,
                initialized |-> eng[e]._isInitialized, pre |-> Store(e),
                was |-> builder[e]]
    /\ nOps' = nOps + 1
    /\ twin' = Mirror(e, [op |-> <<name, res>>, arg |-> 0])
    /\ SetStore(e, newStore)
    /\ builder' = [builder EXCEPT ![e] = newBuilder]
    /\ UNCHANGED <<tries, dbs, tlast, nTrieOps, eng, nEng, chains, commons, initc, op, faults>>

\* buildBlock(opts): the builder opens its checkpoint.  A caller asks for a new
\* builder only when it holds no open one.
BuildBlock(e) ==
    /\ Callable(e)
    /\ builder[e].status # "open"
    /\ IF EngineBusy(e)
       THEN BuilderCall(e, "buildBlock", "EngineBusy", Store(e), builder[e])
       ELSE BuilderCall(e, "buildBlock", "ok", checkpoint(Store(e)),
                        [status |-> "open", gasUsed |-> 0, pre |-> Store(e)])

\* builder.addTransaction(tx), to the interpreter's call: the builder's own
\* checks, then the transaction runner.
AddTransactionBegin(e, tx) ==
    /\ Callable(e)
    /\ builder[e].status # "none"
    /\ LET s == RunTxStart(Store(e), Hardfork(e), tx, BlockGasLimit - builder[e].gasUsed)
       IN  IF BuilderIsClosed(e)
           THEN Rejected(e, "addTransaction", tx, "BuilderClosed") /\ UNCHANGED stores
           ELSE IF EngineBusy(e)
           THEN Rejected(e, "addTransaction", tx, "EngineBusy") /\ UNCHANGED stores
           ELSE IF builder[e].gasUsed + tx.gasLimit > BlockGasLimit
           THEN Rejected(e, "addTransaction", tx, "TxGasLimitBlockOverflow")
                /\ UNCHANGED stores
           ELSE IF s.err # "ok"
           THEN Rejected(e, "addTransaction", tx, s.err) /\ SetStore(e, s.store)
           ELSE /\ SetStore(e, s.store)
                /\ Started(e, "addTransaction", tx,
                           [kind |-> "addTransaction", tx |-> tx, pre |-> Store(e)])
                /\ UNCHANGED commons

\* builder.build(): the end-of-block reward, and the builder's checkpoint is
\* committed.
BuilderBuild(e) ==
    /\ Callable(e)
    /\ builder[e].status # "none"
    /\ IF BuilderIsClosed(e)
       THEN BuilderCall(e, "build", "BuilderClosed", Store(e), builder[e])
       ELSE IF EngineBusy(e)
       THEN BuilderCall(e, "build", "EngineBusy", Store(e), builder[e])
       ELSE BuilderCall(e, "build", "ok",
                commit([Store(e) EXCEPT
                    !.accounts = Credit(@, Coinbase, MinerReward(Hardfork(e)))]),
                [builder[e] EXCEPT !.status = "built"])

\* builder.revert(): the builder's checkpoint is discarded.
BuilderRevert(e) ==
    /\ Callable(e)
    /\ builder[e].status # "none"
    /\ IF BuilderIsClosed(e)
       THEN BuilderCall(e, "revert", "BuilderClosed", Store(e), builder[e])
       ELSE IF EngineBusy(e)
       THEN BuilderCall(e, "revert", "EngineBusy", Store(e), builder[e])
       ELSE BuilderCall(e, "revert", "ok", revert(Store(e)),
                        [builder[e] EXCEPT !.status = "reverted"])

(***************************************************************************)
(* The specifications.                                                     *)
(***************************************************************************)
NoBuilder == [status |-> "none", gasUsed |-> 0, pre |-> NewStore]

Init ==
    /\ eng = [e \in Engines |-> NoEngine]
    /\ nEng = 0
    /\ stores = [e \in Engines |-> NewStore]
    /\ chains = [e \in Engines |-> NewChain]
    /\ commons = [e \in Engines |-> DefaultCommon]
    /\ initc = [e \in Engines |-> [k \in Slots |-> IdleCall]]
    /\ op = [e \in Engines |-> << >>]
    /\ builder = [e \in Engines |-> NoBuilder]
    /\ twin = [e \in Engines |-> InStep]
    /\ last = [op |-> "none", eng |-> 0, res |-> "ok"]
    /\ faults = 0
    /\ nOps = 0
    /\ tries = [t \in Tries |-> IF t = 1 THEN NewSecureTrie(EmptyRoot, 1) ELSE NoTrie]
    /\ dbs = [d \in Tries |-> NewCheckpointDB]
    /\ tlast = [op |-> "none", trie |-> 0, key |-> 0, val |-> NullValue, res |-> NullValue,
                pre |-> EmptyRoot]
    /\ nTrieOps = 0

\* How a message ends in the interpreter.
Statuses == {"success", "revert", "exceptional-halt"}

\* One engine and every execution method.
Next ==
    \/ CreateExec
    \/ \E e \in Engines, k \in Slots : InitStep(e, k)
    \/ \E e \in Engines, tx \in TxInputs : RunTxBegin(e, tx)
    \/ \E e \in Engines, j \in 1..MaxOps, status \in Statuses : RunTxEnd(e, j, status)
    \/ \E e \in Engines, number \in {0, 1, 2} : RunBlockBegin(e, number)
    \/ \E e \in Engines, j \in 1..MaxOps, txs \in BlockBodies, generate \in BOOLEAN,
          headerFault \in HeaderFaults, status \in Statuses :
            RunBlockEnd(e, j, txs, generate, headerFault, status)
    \/ \E e \in Engines : RunBlockchainBegin(e)
    \/ \E e \in Engines, j \in 1..MaxOps, blocks \in ChainInputs, status \in Statuses :
            RunBlockchainEnd(e, j, blocks, status)
    \/ \E e \in Engines : BuildBlock(e)
    \/ \E e \in Engines, tx \in TxInputs : AddTransactionBegin(e, tx)
    \/ \E e \in Engines : BuilderBuild(e)
    \/ \E e \in Engines : BuilderRevert(e)

Spec == Init /\ [][Next]_vars

\* An engine, its copy, and calls on both.
NextCopy ==
    \/ CreateExec
    \/ \E e \in Engines : Copy(e)
    \/ \E e \in Engines, k \in Slots : InitStep(e, k)
    \/ \E e \in Engines, tx \in {Tx(0, 0, 3, 1, 1), Tx(0, 0, 3, 1, 9)} : RunTxBegin(e, tx)
    \/ \E e \in Engines, j \in 1..MaxOps, status \in {"success", "revert"} :
            RunTxEnd(e, j, status)
    \/ \E e \in Engines, number \in {0, 1} : RunBlockBegin(e, number)
    \/ \E e \in Engines, j \in 1..MaxOps, txs \in {<< >>, <<Tx(0, 0, 3, 1, 1)>>},
          generate \in BOOLEAN, headerFault \in {"none", "stateRoot"} :
            RunBlockEnd(e, j, txs, generate, headerFault, "success")
    \/ \E e \in Engines : RunBlockchainBegin(e)
    \/ \E e \in Engines, j \in 1..MaxOps, blocks \in ChainInputs :
            RunBlockchainEnd(e, j, blocks, "success")
    \/ \E e \in Engines : BuildBlock(e)
    \/ \E e \in Engines : BuilderRevert(e)

SpecCopy == Init /\ [][NextCopy]_vars

\* Construction, initialization and copy alone, over the options init() reads.
NextInit ==
    \/ Create
    \/ \E e \in Engines : Copy(e)
    \/ \E e \in Engines, k \in Slots : InitCall(e, k)
    \/ \E e \in Engines, k \in Slots : InitStep(e, k)

SpecInit == Init /\ [][NextInit]_vars

\* The constructor alone, over every options object.
NextCtor == CreateAny

SpecCtor == Init /\ [][NextCtor]_vars

\* An object made by the constructor alone, and init() calls on it that overlap.
NextOverlap ==
    \/ New
    \/ \E e \in Engines, k \in Slots : InitCall(e, k)
    \/ \E e \in Engines, k \in Slots : InitStep(e, k)

SpecOverlap == Init /\ [][NextOverlap]_vars

\* A SecureTrie, its copies, and the calls on them.
NextTrie ==
    \/ \E t \in Tries, key \in TrieKeys : Get(t, key)
    \/ \E t \in Tries, key \in TrieKeys, val \in TrieValues : Put(t, key, val)
    \/ \E t \in Tries, key \in TrieKeys : Del(t, key)
    \/ \E t \in Tries : TrieCheckpoint(t)
    \/ \E t \in Tries : TrieCommit(t)
    \/ \E t \in Tries : TrieRevert(t)
    \/ \E t \in Tries, includeCheckpoints \in BOOLEAN : TrieCopy(t, includeCheckpoints)

SpecTrie == Init /\ [][NextTrie]_vars

(***************************************************************************)
(* Properties of the engine shell.                                         *)
(***************************************************************************)
ExecutionMethods == {"runTx", "runBlock", "runBlockchain", "buildBlock"}

SerializedMethods == {"runTx", "runBlock", "runBlockchain", "addTransaction"}

\* C1: when init() primes the precompile accounts (activatePrecompiles, no
\* external state store), the checkpoint depth of the state store when the call
\* returns or throws is the depth at the call, also when getAccount or
\* putAccount fails inside the priming loop.
C1_InitCheckpointsBalanced ==
    (last.op = "init" /\ last.res \in {"returned", "threw"} /\ WantsPrecompiles(last.eng))
        => last.d1 = last.d0

\* C2: an init() call on an engine on which an init() call has completed
\* returns at once: the block store is not initialized again, no genesis is
\* written, no checkpoint is opened and no account is written; the state
\* store, the block store and the chain parameters are unchanged and the engine
\* stays initialized.
C2_InitIdempotent ==
    [][(last'.op = "init" /\ last'.entry /\ eng[last'.eng]._isInitialized)
        => /\ last'.res = "returned"
           /\ stores' = stores
           /\ chains' = chains
           /\ commons' = commons
           /\ eng'[last'.eng]._isInitialized]_vars

\* init() has been called again on an initialized engine whose store holds the
\* genesis state.
C2_Witness ==
    /\ last.op = "init" /\ last.entry /\ last.call = "return"
    /\ WantsGenesis(last.eng)
    /\ getStateRoot(Store(last.eng)) # {}

\* C3: an engine that VM.create or copy() has returned is initialized, and
\* every runTx, runBlock, runBlockchain and buildBlock call is made on an
\* initialized engine.
C3_InitPrecedesExecution ==
    /\ \A e \in Engines : eng[e].returned => eng[e]._isInitialized
    /\ last.op \in ExecutionMethods => last.initialized

\* An execution call has started on a copy.
C3_Witness ==
    /\ last.op \in ExecutionMethods /\ last.res \in {"started", "ok"}
    /\ eng[last.eng].copyOf # 0
    /\ last.initialized

\* C4: at most one of runTx, runBlock, runBlockchain and addTransaction is in
\* progress on an engine, and such a call that reaches the engine while another
\* is in progress fails with EngineBusy (addTransaction on a closed builder
\* fails in the builder, with BuilderClosed, before it reaches the engine).
C4_Serialized ==
    /\ \A e \in Engines : Len(op[e]) <= 1
    /\ (last.op \in SerializedMethods /\ last.busy /\ last.res # "BuilderClosed")
        => last.res = "EngineBusy"

\* runBlock was called while another call was in progress.
C4_Witness ==
    /\ last.op = "runBlock" /\ last.busy /\ last.res = "EngineBusy"
    /\ Len(op[last.eng]) = 1

\* C5: at copy() the copy's state root is the original's; the init() the copy
\* goes through writes nothing; and a step of one engine leaves the state
\* store, the block store and the chain parameters of every other engine
\* unchanged.
C5_CopyIndependent ==
    [][/\ (last'.op = "copy" /\ last'.eng # 0) =>
            getStateRoot(stores'[eng'[last'.eng].stateManager])
                = getStateRoot(stores'[eng'[eng'[last'.eng].copyOf].stateManager])
       /\ (last'.op = "init" /\ eng[last'.eng].copyOf # 0) => stores' = stores
       /\ \A b \in 1..nEng : b # last'.eng =>
            /\ stores'[eng[b].stateManager] = stores[eng[b].stateManager]
            /\ chains'[eng[b].blockchain] = chains[eng[b].blockchain]
            /\ commons'[eng[b]._common] = commons[eng[b]._common]]_vars

\* A call on a copy has changed the copy's state root and hardfork; the
\* original's differ from them.
C5_Witness ==
    /\ last.op = "runBlock" /\ last.res = "ok"
    /\ eng[last.eng].copyOf # 0
    /\ getStateRoot(Store(last.eng)) # getStateRoot(Store(eng[last.eng].copyOf))
    /\ getStateRoot(Store(eng[last.eng].copyOf)) = getStateRoot(last.pre)

\* C6: when the calls completed on a copy since copy() and the calls completed
\* on its original since then are the same calls with the same inputs, and
\* none is in progress, the two state roots are equal, whatever options the
\* original was constructed with.
C6_CopyDeterministic ==
    \A c \in Engines :
        (/\ c <= nEng /\ eng[c].copyOf # 0 /\ eng[c].returned
         /\ twin[c].side = "none"
         /\ op[c] = << >> /\ op[eng[c].copyOf] = << >>)
        => getStateRoot(Store(c)) = getStateRoot(Store(eng[c].copyOf))

\* C7: a runTx call that fails a pre-execution check fails with the error of
\* that check and leaves the state store (accounts, storage roots and
\* checkpoint stack) as it was at the call.
C7_ValidationFailureNoChange ==
    (last.op = "runTx" /\ last.res \in ValidationErrors) =>
        LET sender == Account(last.pre.accounts, Sender)
            tx == last.arg
            hf == Hardfork(last.eng)
        IN  /\ Store(last.eng) = last.pre
            /\ last.res = "UnsupportedTxType" => tx.type = 2 /\ ~IsFeeMarket(hf)
            /\ last.res = "BlockGasLimitExceeded" => tx.gasLimit > BlockGasLimit
            /\ last.res = "IntrinsicGasTooLow" => tx.gasLimit < IntrinsicGas
            /\ last.res = "NonceMismatch" => sender.nonce # tx.nonce
            /\ last.res = "FeeCapBelowBaseFee" => tx.type = 2 /\ tx.maxFee < BaseFee
            /\ last.res = "InsufficientFunds" =>
                    sender.balance < tx.gasLimit * EffectiveGasPrice(hf, tx) + tx.value

\* runTx has failed with NonceMismatch on a sender that has sent a transaction.
C7_Witness ==
    /\ last.op = "runTx" /\ last.res = "NonceMismatch"
    /\ Account(last.pre.accounts, Sender).nonce = 1

\* C8: a runBlock call that fails, with generate true or false, leaves the
\* state store as it was at the call, and a runBlock call that succeeds has
\* committed its checkpoint.
C8_RunBlockAtomic ==
    /\ (last.op = "runBlock" /\ last.res \notin {"ok", "started", "EngineBusy"})
        => Store(last.eng) = last.pre
    /\ (last.op = "runBlock" /\ last.res = "ok")
        => Depth(Store(last.eng)) = Depth(last.pre)

\* C9: buildBlock opens one checkpoint; build() commits it and revert()
\* restores the state store of the builder's creation; a second terminal call
\* and every addTransaction after a terminal call fail with BuilderClosed and
\* leave the state store as it was.
C9_BuilderLifecycle ==
    /\ (last.op = "buildBlock" /\ last.res = "ok") =>
            /\ Depth(Store(last.eng)) = Depth(last.pre) + 1
            /\ builder[last.eng].status = "open"
    /\ (last.op = "build" /\ last.res = "ok") =>
            /\ last.was.status = "open"
            /\ builder[last.eng].status = "built"
            /\ Depth(Store(last.eng)) = Depth(last.was.pre)
    /\ (last.op = "revert" /\ last.res = "ok") =>
            /\ last.was.status = "open"
            /\ builder[last.eng].status = "reverted"
            /\ Store(last.eng) = last.was.pre
    /\ (last.op \in {"build", "revert"} /\ last.was.status \in {"built", "reverted"}) =>
            /\ last.res = "BuilderClosed"
            /\ Store(last.eng) = last.pre
            /\ builder[last.eng] = last.was
    /\ (last.op = "addTransaction" /\ builder[last.eng].status \in {"built", "reverted"}) =>
            /\ last.res = "BuilderClosed"
            /\ Store(last.eng) = last.pre

\* addTransaction has been called on a builder after its build(), which
\* committed the builder's checkpoint with the block's reward.
C9_Witness ==
    /\ last.op = "addTransaction" /\ last.res = "BuilderClosed"
    /\ builder[last.eng].status = "built"
    /\ Depth(Store(last.eng)) = 0
    /\ getStateRoot(Store(last.eng)) # getStateRoot(builder[last.eng].pre)

\* C10: a VM.create call whose options have a 'chain' or a 'hardfork' key
\* throws LegacyOptionRejected with no state store, block store, environment
\* facade or interpreter created, and no engine comes to exist.
C10_LegacyKeysRejected ==
    [][(last'.op = "create" /\ (last'.opts.chain \/ last'.opts.hardfork))
        => /\ last'.res = "LegacyOptionRejected"
           /\ last'.created = {}
           /\ last'.eng = 0
           /\ UNCHANGED <<eng, nEng, stores, chains, commons, initc>>]_vars

\* A create with a 'hardfork' key and no 'chain' key, and otherwise
\* contradictory options, was rejected for the key.
C10_Witness ==
    /\ last.op = "create" /\ last.res = "LegacyOptionRejected"
    /\ last.opts.hardfork /\ ~last.opts.chain
    /\ last.opts.hardforkByBlockNumber = "true" /\ last.opts.hardforkByTD # NoTD
    /\ nEng = 0

\* The options of a create pass the checks the constructor makes before it
\* looks at the two hardfork selectors.
PassesEarlierChecks(opts) ==
    /\ ~opts.chain /\ ~opts.hardfork
    /\ opts.common.given => opts.common.eips \subseteq supportedEIPs
    /\ (IF opts.common.given THEN opts.common.hardfork ELSE DefaultCommon.hardfork)
            \in supportedHardforks

\* C11: a VM.create call that asks for both hardforkByBlockNumber and
\* hardforkByTD constructs no engine, and fails with
\* ConflictingHardforkSelectors when its options pass the earlier checks; no
\* constructed engine has _hardforkByBlockNumber set together with a defined
\* _hardforkByTD.
C11_SelectorsExclusive ==
    /\ (last.op = "create" /\ last.opts.hardforkByBlockNumber = "true"
            /\ last.opts.hardforkByTD # NoTD)
        => /\ last.res \notin {"ok", "threw"}
           /\ last.eng = 0 /\ nEng = 0
           /\ PassesEarlierChecks(last.opts) => last.res = "ConflictingHardforkSelectors"
    /\ \A e \in 1..nEng : ~(eng[e]._hardforkByBlockNumber /\ eng[e]._hardforkByTD # NoTD)

\* A create with both selectors and otherwise valid options was rejected for
\* the selectors, after the default components had been created.
C11_Witness ==
    /\ last.op = "create" /\ last.res = "ConflictingHardforkSelectors"
    /\ last.opts.hardforkByBlockNumber = "true" /\ last.opts.hardforkByTD # NoTD
    /\ last.opts.common.given /\ last.opts.common.eips = {1559}
    /\ last.created = {"stateManager", "blockchain", "eei", "evm"}
    /\ nEng = 0

\* C12: a VM.create call with chain parameters that list an EIP outside
\* supportedEIPs constructs no engine and, unless a legacy key is present,
\* fails with UnsupportedAmendment; with only supported EIPs listed it does not
\* fail with UnsupportedAmendment; the chain parameters of every engine at the
\* end of its construction list supported EIPs only.
C12_UnsupportedEIPsRejected ==
    /\ (last.op = "create" /\ last.opts.common.given)
        => IF last.opts.common.eips \subseteq supportedEIPs
           THEN last.res # "UnsupportedAmendment"
           ELSE /\ last.eng = 0 /\ nEng = 0
                /\ last.res \in {"UnsupportedAmendment", "LegacyOptionRejected"}
                /\ (~last.opts.chain /\ ~last.opts.hardfork)
                        => /\ last.res = "UnsupportedAmendment"
                           /\ last.created = {}
    /\ (last.op = "create" /\ last.eng # 0)
        => commons[eng[last.eng]._common].eips \subseteq supportedEIPs

\* One create was rejected for EIP 4844 next to the supported EIP 1559.
C12_Witness ==
    /\ last.op = "create" /\ last.res = "UnsupportedAmendment"
    /\ last.opts.common.given /\ last.opts.common.eips = {1559, 4844}
    /\ nEng = 0

C14_ExternalStoreUntouched ==
    [][/\ (last'.op = "init" /\ eng[last'.eng]._opts.stateManager)
            => /\ stores' = stores
               /\ last'.call \in {"blockchainInit", "finish", "return"}
               /\ last'.d1 = last'.d0
       /\ (last'.op = "init" /\ last'.call = "finish" /\ last'.viaCreate
                /\ eng[last'.eng]._opts.stateManager)
            => stores'[eng[last'.eng].stateManager] =
                    IF eng[last'.eng].copyOf = 0 THEN ExternalStore
                    ELSE StateManagerCopy(stores[eng[eng[last'.eng].copyOf].stateManager])
      ]_vars

\* init() has finished on an engine created with a supplied store and with both
\* activateGenesisState and activatePrecompiles set.
C14_Witness ==
    /\ last.op = "init" /\ last.call = "finish" /\ last.viaCreate
    /\ eng[last.eng].copyOf = 0
    /\ eng[last.eng]._opts.stateManager
    /\ eng[last.eng]._opts.activateGenesisState
    /\ eng[last.eng]._opts.activatePrecompiles
    /\ eng[last.eng]._isInitialized
    /\ Store(last.eng) = ExternalStore

\* The addresses getActivePrecompiles gives for the chain parameters of engine e.
ActivePrecompiles(e) ==
    {getActivePrecompiles(commons[eng[e]._common])[i] :
        i \in 1..Len(getActivePrecompiles(commons[eng[e]._common]))}

\* C15: when init() returns after priming (activatePrecompiles, no external
\* state store), every active precompile address has a non-empty account; one
\* whose account was empty when the priming began has balance 1, nonce 0, empty
\* code and the storage root it had; one whose account was non-empty has the
\* account it had; every other address has the account it had.
C15_PrecompilesPrimed ==
    (last.op = "init" /\ last.call = "finish" /\ WantsPrecompiles(last.eng))
        => \A a \in Addrs :
            LET now == Store(last.eng).accounts[a]
                was == last.before[a]
            IN  IF a \notin ActivePrecompiles(last.eng) THEN now = was
                ELSE /\ now.present
                     /\ ~(now.balance = 0 /\ now.nonce = 0 /\ now.codeHash = EmptyCodeHash)
                     /\ IF was.balance = 0 /\ was.nonce = 0 /\ was.codeHash = EmptyCodeHash
                        THEN /\ now.balance = 1 /\ now.nonce = 0
                             /\ now.codeHash = EmptyCodeHash
                             /\ now.stateRoot = was.stateRoot
                        ELSE now = was

\* init() has returned after priming a store that held the genesis state: the
\* first precompile address kept its balance of 5, the third was given 1, and
\* the sender kept its balance.
C15_Witness ==
    /\ last.op = "init" /\ last.call = "finish" /\ WantsPrecompiles(last.eng)
    /\ last.before[Precompile1].balance = 5
    /\ Store(last.eng).accounts[Precompile1].balance = 5
    /\ ~last.before[Precompile3].present
    /\ Store(last.eng).accounts[Precompile3].balance = 1
    /\ Store(last.eng).accounts[Sender].balance = 8
    /\ Depth(Store(last.eng)) = 0

\* C20: in an init() that does both, generateCanonicalGenesis is called on the
\* store as the constructor made it, with no checkpoint opened by init(), and
\* the priming's checkpoint is opened on a store that holds the genesis
\* accounts; when init() returns, a precompile address whose genesis account is
\* non-empty has exactly that account, and one whose genesis account is empty
\* has that account with balance 1, its storage root kept.
C20_GenesisBeforePriming ==
    [][/\ (last'.op = "init" /\ last'.call = "genesis" /\ last'.res = "no")
            => /\ WantsGenesis(last'.eng)
               /\ stores[eng[last'.eng].stateManager] = NewStore
               /\ last'.d1 = last'.d0
       /\ (last'.op = "init" /\ last'.call = "checkpoint" /\ last'.res = "no"
                /\ WantsGenesis(last'.eng))
            => \A a \in Addrs : GenesisAlloc[a].present
                    => stores[eng[last'.eng].stateManager].accounts[a] = GenesisAlloc[a]
       /\ (last'.op = "init" /\ last'.call = "finish"
                /\ WantsGenesis(last'.eng) /\ WantsPrecompiles(last'.eng))
            => \A a \in ActivePrecompiles(last'.eng) : GenesisAlloc[a].present
                    => stores'[eng[last'.eng].stateManager].accounts[a] =
                         IF GenesisAlloc[a].balance # 0 \/ GenesisAlloc[a].nonce # 0
                                \/ GenesisAlloc[a].codeHash # EmptyCodeHash
                         THEN GenesisAlloc[a]
                         ELSE [GenesisAlloc[a] EXCEPT !.balance = 1]
      ]_vars

\* init() has returned after genesis and priming: the second precompile
\* address, empty in the genesis state but with storage, has balance 1 and its
\* genesis storage root, and the first has its genesis account.
C20_Witness ==
    /\ last.op = "init" /\ last.call = "finish"
    /\ WantsGenesis(last.eng) /\ WantsPrecompiles(last.eng)
    /\ GenesisAlloc[Precompile2].stateRoot # EmptyStorageRoot
    /\ Store(last.eng).accounts[Precompile2].balance = 1
    /\ Store(last.eng).accounts[Precompile2].stateRoot = GenesisAlloc[Precompile2].stateRoot
    /\ Store(last.eng).accounts[Precompile1] = GenesisAlloc[Precompile1]
    /\ last.before[Precompile2].balance = 0

\* C21: _isInitialized goes from false to true only in the step in which an
\* init() call returns after that call has awaited the block store's _init(),
\* generateCanonicalGenesis() when genesis is requested, and the commit of the
\* priming when priming is requested; the flag never goes back to false; an
\* init() call that throws leaves the flag as it was; an init() call made
\* while the flag is false starts again with the block store's _init(); on an
\* initialized engine the block store has been initialized.
C21_FlagAfterAllSteps ==
    [][\A e \in Engines :
        /\ (eng'[e]._isInitialized /\ ~eng[e]._isInitialized)
            => /\ last'.op = "init" /\ last'.eng = e
               /\ last'.call = "finish" /\ last'.res = "returned"
               /\ "blockchainInit" \in last'.steps
               /\ WantsGenesis(e) => "genesis" \in last'.steps
               /\ WantsPrecompiles(e) => "commit" \in last'.steps
               /\ chains'[eng[e].blockchain].initCount >= 1
        /\ eng[e]._isInitialized => eng'[e]._isInitialized
        /\ (last'.op = "init" /\ last'.eng = e /\ last'.res = "threw")
            => eng'[e]._isInitialized = eng[e]._isInitialized
        /\ (last'.op = "init" /\ last'.eng = e /\ last'.entry /\ ~eng[e]._isInitialized)
            => last'.call = "blockchainInit"
      ]_vars

\* An init() call has returned and set the flag on an engine on which an
\* earlier init() call threw in the priming: the block store was initialized
\* twice, and the checkpoint of the failed call is still open.
C21_Witness ==
    /\ last.op = "init" /\ last.call = "finish" /\ last.res = "returned"
    /\ eng[last.eng]._isInitialized
    /\ last.steps = {"blockchainInit", "genesis", "commit"}
    /\ faults = 1
    /\ chains[eng[last.eng].blockchain].initCount = 2
    /\ Depth(Store(last.eng)) = 1
    /\ \A k \in Slots : initc[last.eng][k].pc = "idle"

\* C22: when init() calls on one engine overlap and no store call fails, the
\* block store's _init() is called at most once, and generateCanonicalGenesis()
\* is never called while a checkpoint of the priming is open.
C22_OverlappingInitOnce ==
    faults = 0
        => /\ \A e \in 1..nEng : chains[eng[e].blockchain].initCount <= 1
           /\ (last.op = "init" /\ last.call = "genesis" /\ last.res = "no")
                => last.d1 = 0

(***************************************************************************)
(* Properties of SecureTrie.                                               *)
(***************************************************************************)
\* C17: a put(k, v) with a non-empty v makes get(k) return v; a put(k, v) with
\* a null or empty v, and a del(k), make get(k) return null; neither changes
\* what get returns for the other keys, on this trie or on any other; get(k)
\* changes nothing.
C17_HashedKeyAddressing ==
    [][\A key \in TrieKeys :
        LET t == tlast'.trie
            now == SecureTrieGet(tries'[t].root, key)
        IN  /\ (tlast'.op = "put" /\ key = tlast'.key)
                => now = IF tlast'.val \in {NullValue, Buffer(<< >>)} THEN NullValue
                         ELSE tlast'.val
            /\ (tlast'.op = "del" /\ key = tlast'.key) => now = NullValue
            /\ (tlast'.op \in {"put", "del"} /\ key # tlast'.key)
                => now = SecureTrieGet(tries[t].root, key)
            /\ tlast'.op \in {"put", "del", "get"}
                => \A u \in Tries \ {t} : tries'[u] = tries[u]
            /\ (tlast'.op = "get" /\ key = tlast'.key)
                => /\ tlast'.res = now
                   /\ tries' = tries
      ]_vars

\* del(0) has removed the value of key 0, whose hash is the other key, and
\* get(1) still gives the value put for key 1.
C17_Witness ==
    /\ tlast.op = "del" /\ tlast.key = 0
    /\ SecureTrieGet(tlast.pre, 0) = Buffer(<<1>>)
    /\ SecureTrieGet(tries[tlast.trie].root, 0) = NullValue
    /\ SecureTrieGet(tries[tlast.trie].root, 1) = Buffer(<<2>>)
    /\ keccak256(0) = 1

\* C18: a put(k, v) with a null or empty v leaves the root that deleting the
\* leaf at keccak256(k), the key hashed once, leaves, which is the root del(k)
\* leaves; when the trie had no value for k the root is the one before the call.
C18_EmptyPutDeletes ==
    (tlast.op = "put" /\ tlast.val \in {NullValue, Buffer(<< >>)})
        => /\ tries[tlast.trie].root =
                {leaf \in tlast.pre : leaf[1] # keccak256(tlast.key)}
           /\ tries[tlast.trie].root = SecureTrieDel(tlast.pre, tlast.key)
           /\ (\A leaf \in tlast.pre : leaf[1] # keccak256(tlast.key))
                => tries[tlast.trie].root = tlast.pre

\* A put of the empty buffer has deleted the value of key 0 and left the value
\* of key 1, which sits at the hash of the hash of key 0.
C18_Witness ==
    /\ tlast.op = "put" /\ tlast.val = Buffer(<< >>) /\ tlast.key = 0
    /\ tlast.pre = {<<keccak256(0), Buffer(<<1>>)>>, <<keccak256(1), Buffer(<<2>>)>>}
    /\ tries[tlast.trie].root = {<<keccak256(1), Buffer(<<2>>)>>}
    /\ keccak256(keccak256(0)) = keccak256(1)

\* The argument and the result of the copy() call that has just returned.
IncludeCheckpoints == tlast.key = 1

NewTrie == tlast.res.bytes[1]

====
